---- MODULE Spec2Model ----
(***************************************************************************)
(* Model of s8.py: the SenseAir S8 CO2 bridge.  One process (main) reads   *)
(* the sensor over a serial channel, classifies the reading, updates the   *)
(* Prometheus metrics and publishes four MQTT topics; the MQTT client's    *)
(* network thread acknowledges the publishes in the background.            *)
(*                                                                         *)
(* Exceptions are inputs of the environment: they are raised only by the  *)
(* calls that reach outside the process (start_http_server, Serial and    *)
(* its I/O, client.connect, client.publish).  The in-memory calls          *)
(* (get_co2_level, the metric setters, logging) return.  Time advances     *)
(* by the program's own sleeps and by the timeout of the serial read.      *)
(***************************************************************************)
EXTENDS Integers, Sequences, FiniteSets, TLC

VARIABLES
    pc,            \* position of main()
    http_started,  \* start_http_server returned
    will,          \* the client's registered last-will, or NoWill
    will_at_connect, \* for each connect attempt, the will the client had
    conn,          \* ConnectionState of the bus link
    retry_count,   \* connect_mqtt's local retry_count
    attempts,      \* number of client.connect calls made
    waits,         \* the time.sleep(retry_delay) calls of connect_mqtt
    cycle,         \* number of loop iterations begun
    sensor_open,   \* the Serial object of read_co2 exists and is open
    rd_result,     \* outcome of this cycle's read_co2 call and the length it read
    co2_value,     \* main's local co2_value (NoneVal for None)
    level,         \* main's local level
    co2_gauge,     \* Gauge co2_concentration_ppm
    co2_level,     \* Gauge co2_level{level}
    co2_alerts,    \* Counter co2_alerts_total{severity}
    peak_ppm,      \* the global peak_ppm
    pubs,          \* client.publish calls of the current cycle, in order
    inflight,      \* publishes handed to the client and not yet acknowledged
    readings,      \* readings returned by read_co2 so far, in order
    peak_pubs,     \* payloads of the publish calls on /peak so far
    elapsed,       \* tenths of a second slept or timed out since the cycle began
    fn_ppm,        \* argument of a stand-alone get_co2_level call
    fn_ret         \* its return value

vars == <<pc, http_started, will, will_at_connect, conn, retry_count,
          attempts, waits, cycle, sensor_open, rd_result, co2_value, level,
          co2_gauge, co2_level, co2_alerts, peak_ppm, pubs, inflight,
          readings, peak_pubs, elapsed, fn_ppm, fn_ret>>

(***************************************************************************)
(* Bounds of the model.                                                    *)
(***************************************************************************)
MaxCycles == 2
MaxPpm == 5200
MaxBelow == 20

(***************************************************************************)
(* Program constants.                                                      *)
(***************************************************************************)
max_retries == 3
retry_delay == 5
response_size == 7
detected_limit == 1000
settle_delay == 1
read_timeout == 5
loop_delay == 100

NoneVal == 0 - 1
NoWill == [topic |-> "", payload |-> "", qos |-> 0, retain |-> FALSE]
NoLevel == ""
NoResult == [kind |-> "none", value |-> NoneVal, resp_len |-> NoneVal]
Failure(n) == [kind |-> "failure", value |-> NoneVal, resp_len |-> n]
Raise == [kind |-> "raise", value |-> NoneVal, resp_len |-> NoneVal]

MQTT_TOPIC_PREFIX == "sensors/co2"
detected_topic == MQTT_TOPIC_PREFIX \o "/detected"
level_topic == MQTT_TOPIC_PREFIX \o "/level"
peak_topic == MQTT_TOPIC_PREFIX \o "/peak"
online_topic == MQTT_TOPIC_PREFIX \o "/online"

(***************************************************************************)
(* CO2_LEVELS, in insertion order.  unbounded stands for float('inf').     *)
(***************************************************************************)
CO2_LEVELS ==
    << [level |-> "GREAT",   min_val |-> 350,  max_val |-> 450,  unbounded |-> FALSE,
        description |-> "Same as outdoor level"],
       [level |-> "NORMAL",  min_val |-> 451,  max_val |-> 1000, unbounded |-> FALSE,
        description |-> "Normal indoor level"],
       [level |-> "SLEEPY",  min_val |-> 1001, max_val |-> 2000, unbounded |-> FALSE,
        description |-> "May cause drowsiness"],
       [level |-> "WARNING", min_val |-> 2001, max_val |-> 5000, unbounded |-> FALSE,
        description |-> "Warning level - Poor air quality"],
       [level |-> "ALERT",   min_val |-> 5001, max_val |-> 0,    unbounded |-> TRUE,
        description |-> "ALERT - Dangerous level"] >>

LevelNames == {CO2_LEVELS[i].level : i \in 1..Len(CO2_LEVELS)}

InRange_Exclusive(row, ppm) ==
    /\ row.min_val <= ppm
    /\ (row.unbounded \/ ppm < row.max_val)

InRange(row, ppm) ==
    /\ row.min_val <= ppm
    /\ (row.unbounded \/ ppm <= row.max_val)

RECURSIVE ScanLevels(_, _)
ScanLevels(ppm, i) ==
    IF i > Len(CO2_LEVELS)
    THEN <<"ALERT", CO2_LEVELS[5].description>>
    ELSE IF InRange(CO2_LEVELS[i], ppm)
         THEN <<CO2_LEVELS[i].level, CO2_LEVELS[i].description>>
         ELSE ScanLevels(ppm, i + 1)

get_co2_level(ppm) == ScanLevels(ppm, 1)

(***************************************************************************)
(* str(int) for a non-negative integer: its decimal digits.                *)
(***************************************************************************)
Digit == <<"0", "1", "2", "3", "4", "5", "6", "7", "8", "9">>

RECURSIVE str(_)
str(n) == IF n < 10 THEN Digit[n + 1] ELSE str(n \div 10) \o Digit[(n % 10) + 1]

detected_status_high(ppm) == IF ppm <= 2000 THEN "NORMAL" ELSE "ABNORMAL"

detected_status_strict(ppm) == IF ppm < detected_limit THEN "NORMAL" ELSE "ABNORMAL"

detected_status(ppm) == IF ppm <= detected_limit THEN "NORMAL" ELSE "ABNORMAL"

(***************************************************************************)
(* The sensor's answers.  A full frame has 7 bytes; the reading is in the  *)
(* bytes at Python offsets 3 and 4.  The short answers are what read(7)    *)
(* returns when the 0.5 s timeout cuts the frame.                          *)
(***************************************************************************)
Frame(hi, lo) == <<254, 4, 2, hi, lo, 0, 0>>

FullFrames ==
    { Frame(1, 44),   \* 300
      Frame(1, 134),  \* 390
      Frame(1, 144),  \* 400
      Frame(1, 244),  \* 500
      Frame(3, 232),  \* 1000
      Frame(3, 233),  \* 1001
      Frame(7, 209),  \* 2001
      Frame(19, 137)  \* 5001
    }

ShortFrames == { <<>>, <<254, 4, 2, 1, 144>> }

Responses == FullFrames \cup ShortFrames

ValidResponse_Lenient(response) == Len(response) >= 5

\* line 107
ValidResponse(response) == Len(response) = response_size

\* response[k] of Python is element k + 1 of the sequence
Decode(response) == (response[4] * 256) + response[5]

InitState ==
    /\ http_started = FALSE
    /\ will = NoWill
    /\ will_at_connect = <<>>
    /\ conn = "Disconnected"
    /\ retry_count = 0
    /\ attempts = 0
    /\ waits = <<>>
    /\ cycle = 0
    /\ sensor_open = FALSE
    /\ rd_result = NoResult
    /\ co2_value = NoneVal
    /\ level = NoLevel
    /\ co2_gauge = 0
    /\ co2_level = [l \in LevelNames |-> 0]
    /\ co2_alerts = [l \in LevelNames |-> 0]
    /\ peak_ppm = 0
    /\ pubs = <<>>
    /\ inflight = {}
    /\ readings = <<>>
    /\ peak_pubs = <<>>
    /\ elapsed = 0
    /\ fn_ret = <<NoLevel, "">>

Init ==
    /\ pc = "start"
    /\ fn_ppm = 0
    /\ InitState

startVars == <<http_started, will, will_at_connect, conn, retry_count, attempts, waits>>
readVars == <<sensor_open, rd_result, co2_value, readings>>
metricVars == <<level, co2_gauge, co2_level, co2_alerts>>
pubVars == <<peak_ppm, pubs, inflight, peak_pubs>>
fnVars == <<fn_ppm, fn_ret>>

(***************************************************************************)
(* main(), lines 161-181: start-up.                                        *)
(***************************************************************************)
StartHttpServer ==
    /\ pc = "start"
    /\ \E ok \in BOOLEAN :
         IF ok
         THEN /\ http_started' = TRUE
              /\ pc' = "setup"
         ELSE /\ http_started' = FALSE
              /\ pc' = "exited"
    /\ UNCHANGED <<will, will_at_connect, conn, retry_count, attempts, waits, cycle>>
    /\ UNCHANGED <<readVars, metricVars, pubVars, fnVars>>
    /\ UNCHANGED elapsed

LastWill_Unset == NoWill

\* lines 176-177: client.will_set(online_topic, "0", qos=1, retain=True)
LastWill == [topic |-> online_topic, payload |-> "0", qos |-> 1, retain |-> TRUE]

SetupClient ==
    /\ pc = "setup"
    /\ will' = LastWill
    /\ conn' = "Connecting"
    /\ pc' = "connect"
    /\ UNCHANGED <<http_started, will_at_connect, retry_count, attempts, waits, cycle>>
    /\ UNCHANGED <<readVars, metricVars, pubVars, fnVars>>
    /\ UNCHANGED elapsed

MoreRetries_OffByOne(count) == count <= max_retries

\* lines 141 and 149: the retry budget
MoreRetries(count) == count < max_retries

AfterConnect_Ignored(connected) == "loop"

\* lines 179-183: main enters the loop only when connect_mqtt returned True
AfterConnect(connected) == IF connected THEN "loop" ELSE "exited"

\* one iteration of connect_mqtt's while loop, up to the sleep or the return
ConnectAttempt ==
    /\ pc = "connect"
    /\ MoreRetries(retry_count)
    /\ attempts' = attempts + 1
    /\ will_at_connect' = Append(will_at_connect, will)
    /\ \E ok \in BOOLEAN :
         IF ok
         THEN /\ conn' = "Connected"
              /\ retry_count' = retry_count
              /\ pc' = AfterConnect(TRUE)
         ELSE /\ retry_count' = retry_count + 1
              /\ IF MoreRetries(retry_count + 1)
                 THEN /\ conn' = "Connecting"
                      /\ pc' = "backoff"
                 ELSE /\ conn' = "ExhaustedRetries"
                      /\ pc' = AfterConnect(FALSE)
    /\ UNCHANGED <<http_started, will, waits, cycle>>
    /\ UNCHANGED <<readVars, metricVars, pubVars, fnVars>>
    /\ UNCHANGED elapsed

Backoff ==
    /\ pc = "backoff"
    /\ waits' = Append(waits, retry_delay)
    /\ pc' = "connect"
    /\ UNCHANGED <<http_started, will, will_at_connect, conn, retry_count, attempts, cycle>>
    /\ UNCHANGED <<readVars, metricVars, pubVars, fnVars>>
    /\ UNCHANGED elapsed

(***************************************************************************)
(* read_co2(), lines 74-133, entered from line 186.                        *)
(***************************************************************************)
SerialOutcomes == {"ok", "SerialException", "Exception"}

\* line 186 and lines 77-84: a new iteration calls read_co2, which opens the port
ReadOpen ==
    /\ pc = "loop"
    /\ cycle < MaxCycles
    /\ cycle' = cycle + 1
    /\ elapsed' = 0
    /\ pubs' = <<>>
    /\ \E out \in SerialOutcomes :
         CASE out = "ok" ->
                /\ sensor_open' = TRUE
                /\ rd_result' = NoResult
                /\ pc' = "rd_xfer"
           [] out = "SerialException" ->
                /\ sensor_open' = FALSE
                /\ rd_result' = Failure(NoneVal)
                /\ pc' = "rd_finally"
           [] out = "Exception" ->
                /\ sensor_open' = FALSE
                /\ rd_result' = Raise
                /\ pc' = "rd_finally"
    /\ UNCHANGED <<co2_value, readings, peak_ppm, inflight, peak_pubs>>
    /\ UNCHANGED <<startVars, metricVars, fnVars>>

\* lines 90, 100 and 104: the two settle sleeps, and the timeout of read(7)
\* when fewer than 7 bytes arrive
ReadDuration(response) ==
    (2 * settle_delay) + (IF Len(response) < response_size THEN read_timeout ELSE 0)

\* lines 89-128: flush, write the command, read(7), decode or fail
ReadTransfer ==
    /\ pc = "rd_xfer"
    /\ \/ \E response \in Responses :
            /\ rd_result' = IF ValidResponse(response)
                            THEN [kind |-> "reading", value |-> Decode(response),
                                  resp_len |-> Len(response)]
                            ELSE Failure(Len(response))
            /\ elapsed' = elapsed + ReadDuration(response)
       \/ \E t \in 0..(2 * settle_delay) :
            /\ rd_result' \in {Failure(NoneVal), Raise}   \* SerialException, or another
            /\ elapsed' = elapsed + t
    /\ pc' = "rd_finally"
    /\ UNCHANGED <<cycle, sensor_open, co2_value, readings>>
    /\ UNCHANGED <<startVars, metricVars, pubVars, fnVars>>

ClosePort_Leak(open) == open

\* lines 131-132: an open port is closed
ClosePort(open) == IF open THEN FALSE ELSE open

AfterRead_NoCheck(kind) == IF kind = "raise" THEN "handler" ELSE "classify"

\* line 188 (co2_value is not None), line 269 (else) and line 289 (except)
AfterRead(kind) ==
    CASE kind = "reading" -> "classify"
      [] kind = "failure" -> "pub_offline"
      [] kind = "raise" -> "handler"

\* lines 130-133, then the return to line 186 or the jump to line 289
ReadFinally ==
    /\ pc = "rd_finally"
    /\ sensor_open' = ClosePort(sensor_open)
    /\ pc' = AfterRead(rd_result.kind)
    /\ CASE rd_result.kind = "reading" ->
              /\ co2_value' = rd_result.value
              /\ readings' = Append(readings, rd_result.value)
         [] rd_result.kind = "failure" ->
              /\ co2_value' = NoneVal
              /\ readings' = readings
         [] rd_result.kind = "raise" ->
              /\ co2_value' = co2_value
              /\ readings' = readings
    /\ UNCHANGED <<cycle, rd_result>>
    /\ UNCHANGED <<startVars, metricVars, pubVars, fnVars>>
    /\ UNCHANGED elapsed

(***************************************************************************)
(* main(), lines 188-203: classification and metrics.                      *)
(***************************************************************************)
ResetLevels_Skipped == co2_level

\* lines 196-197
ResetLevels == [l \in LevelNames |-> 0]

AlertLevels_OnlyAlert == {"ALERT"}

\* line 202
AlertLevels == {"WARNING", "ALERT"}

\* lines 190-197
Classify ==
    /\ pc = "classify"
    /\ level' = get_co2_level(co2_value)[1]
    /\ co2_gauge' = co2_value
    /\ co2_level' = ResetLevels
    /\ pc' = "set_level"
    /\ UNCHANGED <<co2_alerts, cycle>>
    /\ UNCHANGED <<startVars, readVars, pubVars, fnVars>>
    /\ UNCHANGED elapsed

\* lines 199-203
SetLevel ==
    /\ pc = "set_level"
    /\ co2_level' = [co2_level EXCEPT ![level] = 1]
    /\ co2_alerts' = IF level \in AlertLevels
                     THEN [co2_alerts EXCEPT ![level] = @ + 1]
                     ELSE co2_alerts
    /\ pc' = "pub_detected"
    /\ UNCHANGED <<level, co2_gauge, cycle>>
    /\ UNCHANGED <<startVars, readVars, pubVars, fnVars>>
    /\ UNCHANGED elapsed

(***************************************************************************)
(* client.publish and wait_for_publish.                                    *)
(*   sent      rc = MQTT_ERR_SUCCESS, the message is in flight             *)
(*   rc_error  rc # MQTT_ERR_SUCCESS                                       *)
(*   raised    client.publish raised an exception                          *)
(***************************************************************************)
PublishOutcomes == {"sent", "rc_error", "raised"}

Message(topic, payload, retain, outcome) ==
    [topic |-> topic, payload |-> payload, qos |-> 1, retain |-> retain,
     outcome |-> outcome]

Mid(topic) == [cycle |-> cycle, topic |-> topic]

\* one client.publish call followed by the test of its rc
Publish(topic, payload, retain, waitpc, nextpc, excpc) ==
    \E out \in PublishOutcomes :
        /\ pubs' = Append(pubs, Message(topic, payload, retain, out))
        /\ inflight' = IF out = "sent" THEN inflight \cup {Mid(topic)} ELSE inflight
        /\ pc' = CASE out = "sent" -> waitpc
                   [] out = "rc_error" -> nextpc
                   [] out = "raised" -> excpc

\* result.wait_for_publish(): blocks until the message is acknowledged.  It is
\* called only after rc = MQTT_ERR_SUCCESS, where it has no raising path.
WaitForPublish(topic, nextpc) ==
    /\ Mid(topic) \notin inflight
    /\ pc' = nextpc
    /\ UNCHANGED <<pubVars, cycle>>
    /\ UNCHANGED <<startVars, readVars, metricVars, fnVars>>
    /\ UNCHANGED elapsed

\* lines 207-215, with the inner except of line 266
PublishDetected ==
    /\ pc = "pub_detected"
    /\ Publish(detected_topic, detected_status(co2_value), FALSE,
               "wait_detected", "pub_level", "sleep")
    /\ UNCHANGED <<peak_ppm, peak_pubs, cycle>>
    /\ UNCHANGED <<startVars, readVars, metricVars, fnVars>>
    /\ UNCHANGED elapsed

\* lines 216-220
WaitDetected ==
    /\ pc = "wait_detected"
    /\ WaitForPublish(detected_topic, "pub_level")

\* lines 223-229
PublishLevel ==
    /\ pc = "pub_level"
    /\ Publish(level_topic, str(co2_value), FALSE,
               "wait_level", "pub_peak", "sleep")
    /\ UNCHANGED <<peak_ppm, peak_pubs, cycle>>
    /\ UNCHANGED <<startVars, readVars, metricVars, fnVars>>
    /\ UNCHANGED elapsed

\* lines 230-234
WaitLevel ==
    /\ pc = "wait_level"
    /\ WaitForPublish(level_topic, "pub_peak")

NewPeak_OrEqual(value, peak) == value >= peak

NewPeak_Changed(value, peak) == value # peak

\* line 237
NewPeak(value, peak) == value > peak

\* lines 237-245
PublishPeak ==
    /\ pc = "pub_peak"
    /\ IF NewPeak(co2_value, peak_ppm)
       THEN /\ peak_ppm' = co2_value
            /\ Publish(peak_topic, str(co2_value), TRUE,
                       "wait_peak", "pub_online", "sleep")
            /\ peak_pubs' = Append(peak_pubs, str(co2_value))
       ELSE /\ pc' = "pub_online"
            /\ UNCHANGED <<peak_ppm, pubs, inflight, peak_pubs>>
    /\ UNCHANGED cycle
    /\ UNCHANGED <<startVars, readVars, metricVars, fnVars>>
    /\ UNCHANGED elapsed

\* lines 246-250
WaitPeak ==
    /\ pc = "wait_peak"
    /\ WaitForPublish(peak_topic, "pub_online")

\* lines 253-259
PublishOnline ==
    /\ pc = "pub_online"
    /\ Publish(online_topic, "1", TRUE, "wait_online", "sleep", "sleep")
    /\ UNCHANGED <<peak_ppm, peak_pubs, cycle>>
    /\ UNCHANGED <<startVars, readVars, metricVars, fnVars>>
    /\ UNCHANGED elapsed

\* lines 260-264
WaitOnline ==
    /\ pc = "wait_online"
    /\ WaitForPublish(online_topic, "sleep")

\* lines 271-278, with the except of line 284
PublishOffline ==
    /\ pc = "pub_offline"
    /\ Publish(online_topic, "0", TRUE, "wait_offline", "sleep", "sleep")
    /\ UNCHANGED <<peak_ppm, peak_pubs, cycle>>
    /\ UNCHANGED <<startVars, readVars, metricVars, fnVars>>
    /\ UNCHANGED elapsed

\* lines 279-283
WaitOffline ==
    /\ pc = "wait_offline"
    /\ WaitForPublish(online_topic, "sleep")

SleepThen_FixedRate(t) == IF t < loop_delay THEN loop_delay ELSE t

\* lines 287 and 296: time.sleep(10) is relative to the end of the cycle's work
SleepThen(t) == t + loop_delay

\* line 287
Sleep ==
    /\ pc = "sleep"
    /\ pc' = "loop"
    /\ elapsed' = SleepThen(elapsed)
    /\ UNCHANGED cycle
    /\ UNCHANGED <<startVars, readVars, metricVars, pubVars, fnVars>>

AfterHandler_Exit == "exited"

\* the except of line 289 is inside the while True: the loop goes on
AfterHandler == "loop"

\* lines 289-295: the except of the loop body; the publish is not waited for
HandlerPublish ==
    /\ pc = "handler"
    /\ Publish(online_topic, "0", TRUE, "handler_sleep", "handler_sleep", "handler_sleep")
    /\ UNCHANGED <<peak_ppm, peak_pubs, cycle>>
    /\ UNCHANGED <<startVars, readVars, metricVars, fnVars>>
    /\ UNCHANGED elapsed

\* line 296, then back to line 184
HandlerSleep ==
    /\ pc = "handler_sleep"
    /\ pc' = AfterHandler
    /\ elapsed' = SleepThen(elapsed)
    /\ UNCHANGED cycle
    /\ UNCHANGED <<startVars, readVars, metricVars, pubVars, fnVars>>

\* the client's network thread (loop_start, line 145) receives a PUBACK
Ack ==
    /\ \E m \in inflight : inflight' = inflight \ {m}
    /\ UNCHANGED <<pc, cycle, peak_ppm, pubs, peak_pubs>>
    /\ UNCHANGED <<startVars, readVars, metricVars, fnVars>>
    /\ UNCHANGED elapsed

Main ==
    \/ StartHttpServer \/ SetupClient \/ ConnectAttempt \/ Backoff
    \/ ReadOpen \/ ReadTransfer \/ ReadFinally
    \/ Classify \/ SetLevel
    \/ PublishDetected \/ WaitDetected
    \/ PublishLevel \/ WaitLevel
    \/ PublishPeak \/ WaitPeak
    \/ PublishOnline \/ WaitOnline
    \/ PublishOffline \/ WaitOffline
    \/ Sleep \/ HandlerPublish \/ HandlerSleep

Next == Main \/ Ack

Spec == Init /\ [][Next]_vars

\* the main thread is scheduled and its sleeps return; nothing is assumed of
\* the broker's acknowledgements
FairSpec == Spec /\ WF_vars(Main)

(***************************************************************************)
(* A stand-alone call of get_co2_level, for the properties of the          *)
(* classifier over a range of integers.                                    *)
(***************************************************************************)
PpmDomain == (0 - MaxBelow)..MaxPpm

InitFn ==
    /\ pc = "fn_call"
    /\ fn_ppm \in PpmDomain
    /\ InitState

CallGetCo2Level ==
    /\ pc = "fn_call"
    /\ fn_ret' = get_co2_level(fn_ppm)
    /\ pc' = "fn_done"
    /\ UNCHANGED <<fn_ppm, cycle, elapsed>>
    /\ UNCHANGED <<startVars, readVars, metricVars, pubVars>>

NextFn == CallGetCo2Level

SpecFn == InitFn /\ [][NextFn]_vars

(***************************************************************************)
(* Vocabulary of the properties.                                           *)
(***************************************************************************)
StartupPcs == {"start", "setup", "connect", "backoff", "exited"}

CycleEnded == pc \in {"sleep", "handler_sleep"} \/ (pc = "loop" /\ cycle >= 1)

GotReading == rd_result.kind = "reading"

\* the acquisition of the current cycle ended without a 7-byte response
AcquisitionFailed == rd_result.kind # "none" /\ rd_result.resp_len # 7

Published(topic) == \E i \in 1..Len(pubs) : pubs[i].topic = topic

Rank(topic) ==
    CASE topic = "sensors/co2/detected" -> 1
      [] topic = "sensors/co2/level" -> 2
      [] topic = "sensors/co2/peak" -> 3
      [] topic = "sensors/co2/online" -> 4

DecimalText ==
    (300 :> "300") @@ (390 :> "390") @@ (400 :> "400") @@ (500 :> "500") @@
    (1000 :> "1000") @@ (1001 :> "1001") @@ (2001 :> "2001") @@ (5001 :> "5001")

(***************************************************************************)
(* C1: connect_mqtt makes at most 3 connection attempts and stops at the   *)
(* first success: after k failures (k in 0..2) and a success there were    *)
(* exactly k waits of 5 seconds and the link is Connected; after 3         *)
(* failures there were exactly 2 waits, the link is ExhaustedRetries and   *)
(* no fourth attempt is made.                                              *)
(***************************************************************************)
C1_ConnectRetries ==
    /\ attempts <= 3
    /\ Len(waits) <= 2
    /\ \A i \in 1..Len(waits) : waits[i] = 5
    /\ conn = "Disconnected" => attempts = 0 /\ waits = <<>>
    /\ (conn = "Connecting" /\ pc = "connect") => attempts <= 2 /\ Len(waits) = attempts
    /\ (conn = "Connecting" /\ pc = "backoff") => attempts \in 1..2 /\ Len(waits) = attempts - 1
    /\ conn = "Connected" => attempts \in 1..3 /\ Len(waits) = attempts - 1
    /\ conn = "ExhaustedRetries" => attempts = 3 /\ Len(waits) = 2 /\ pc = "exited"
    /\ conn \in {"Disconnected", "Connecting", "Connected", "ExhaustedRetries"}

C1_Witness == conn = "Connected" /\ attempts = 3 /\ waits = <<5, 5>>

(***************************************************************************)
(* C2: no acquisition and no publish happens unless the metrics listener   *)
(* started and the link is Connected; when the listener fails to start or  *)
(* the link reaches ExhaustedRetries the process ends without a cycle.     *)
(***************************************************************************)
C2_LoopOnlyAfterStartup ==
    /\ (cycle > 0 \/ pubs # <<>> \/ readings # <<>> \/ sensor_open \/ pc \notin StartupPcs)
          => (http_started /\ conn = "Connected")
    /\ (pc # "start" /\ ~http_started) => (pc = "exited" /\ cycle = 0 /\ pubs = <<>>)
    /\ conn = "ExhaustedRetries" => (pc = "exited" /\ cycle = 0 /\ pubs = <<>>)

C2_Witness == cycle >= 1 /\ Len(pubs) >= 1 /\ http_started /\ conn = "Connected"

(***************************************************************************)
(* C3: in a cycle whose acquisition failed (response of a length other     *)
(* than 7, timeout or transport exception) nothing is published on         *)
(* /detected, /level or /peak, and the one publish of the cycle is         *)
(* /online = "0", retained.                                                *)
(***************************************************************************)
C3_FailureOnlyOffline ==
    AcquisitionFailed =>
        /\ Len(pubs) <= 1
        /\ \A i \in 1..Len(pubs) :
              /\ pubs[i].topic = "sensors/co2/online"
              /\ pubs[i].payload = "0"
              /\ pubs[i].retain = TRUE
        /\ CycleEnded => Len(pubs) = 1

C3_Witness ==
    /\ rd_result.resp_len = 5
    /\ pc = "sleep"
    /\ Len(pubs) = 1
    /\ pubs[1].topic = "sensors/co2/online"
    /\ pubs[1].payload = "0"

(***************************************************************************)
(* C4: in a cycle that produced a reading the publishes come in the order  *)
(* /detected (not retained), /level (not retained, decimal ppm), /peak     *)
(* (retained, only when the reading exceeds the recorded peak), /online =  *)
(* "1" (retained); nothing is published after /online = "1".               *)
(***************************************************************************)
C4_OrderInCycle ==
    GotReading =>
        /\ \A i, j \in 1..Len(pubs) : i < j => Rank(pubs[i].topic) < Rank(pubs[j].topic)
        /\ \A i \in 1..Len(pubs) :
              CASE Rank(pubs[i].topic) = 1 -> pubs[i].retain = FALSE
                [] Rank(pubs[i].topic) = 2 ->
                     pubs[i].retain = FALSE /\ pubs[i].payload = DecimalText[rd_result.value]
                [] Rank(pubs[i].topic) = 3 ->
                     pubs[i].retain = TRUE /\ pubs[i].payload = DecimalText[rd_result.value]
                [] Rank(pubs[i].topic) = 4 ->
                     pubs[i].retain = TRUE /\ pubs[i].payload = "1" /\ i = Len(pubs)

C4_PeakOnlyAbove ==
    (Len(pubs') = Len(pubs) + 1 /\ pubs'[Len(pubs')].topic = "sensors/co2/peak")
        => co2_value > peak_ppm

C4_PublishOrder == [](C4_OrderInCycle) /\ [][C4_PeakOnlyAbove]_vars

C4_Witness ==
    /\ pc = "sleep"
    /\ GotReading
    /\ Len(pubs) = 4
    /\ pubs[3].topic = "sensors/co2/peak"
    /\ pubs[4].payload = "1"

(***************************************************************************)
(* C5: a /peak publish is issued in a cycle exactly when the cycle's       *)
(* reading is greater than every earlier reading (and than 0), and its     *)
(* payload is that reading.                                                *)
(***************************************************************************)
C5_PeakIffNewMaximum ==
    (GotReading /\ CycleEnded) =>
        LET r == readings[Len(readings)]
            isMax == r > 0 /\ \A i \in 1..(Len(readings) - 1) : r > readings[i]
            peakMsgs == {i \in 1..Len(pubs) : pubs[i].topic = "sensors/co2/peak"}
        IN  /\ isMax <=> peakMsgs # {}
            /\ \A i \in peakMsgs : pubs[i].payload = DecimalText[r]

(***************************************************************************)
(* C6: every cycle publishes /online, retained, with "1" exactly when the  *)
(* cycle's acquisition produced a reading and "0" otherwise.               *)
(***************************************************************************)
C6_OnlineEveryCycle ==
    CycleEnded =>
        /\ Published("sensors/co2/online")
        /\ \A i \in 1..Len(pubs) :
              pubs[i].topic = "sensors/co2/online" =>
                  /\ pubs[i].retain = TRUE
                  /\ pubs[i].payload = (IF GotReading THEN "1" ELSE "0")

(***************************************************************************)
(* C7: in a successful cycle a publish that fails, by an error code or by  *)
(* an exception, does not prevent the later publishes of the cycle: they   *)
(* are still attempted.                                                    *)
(***************************************************************************)
C7_LaterPublishesAttempted ==
    (GotReading /\ CycleEnded) =>
        \A i \in 1..Len(pubs) :
            pubs[i].outcome \in {"rc_error", "raised"} =>
                /\ Rank(pubs[i].topic) < 2 => Published("sensors/co2/level")
                /\ Rank(pubs[i].topic) < 4 => Published("sensors/co2/online")

(***************************************************************************)
(* C8: an error raised in a cycle never ends the loop.  As stated: every   *)
(* cycle in which an error was raised (acquisition or publish) attempts    *)
(* an offline publish before it sleeps.  As amended: an error escaping     *)
(* read_co2 is caught at the cycle boundary and /online = "0" (retained)   *)
(* is attempted; an exception of a publish is caught by the publish        *)
(* block's own handler and no offline publish follows; in both cases the   *)
(* process does not exit and the next cycle's acquisition starts, also     *)
(* when the offline publish itself fails.                                  *)
(***************************************************************************)
ErrorInCycle ==
    \/ rd_result.kind = "raise"
    \/ \E i \in 1..Len(pubs) : pubs[i].outcome = "raised"

OfflineAttempted ==
    \E i \in 1..Len(pubs) :
        /\ pubs[i].topic = "sensors/co2/online"
        /\ pubs[i].payload = "0"
        /\ pubs[i].retain = TRUE

C8_OfflineAfterAnyError == (CycleEnded /\ ErrorInCycle) => OfflineAttempted

C8_Contained ==
    /\ cycle >= 1 => pc # "exited"
    /\ (CycleEnded /\ rd_result.kind = "raise") => (Len(pubs) = 1 /\ OfflineAttempted)
    /\ (CycleEnded /\ GotReading /\ ErrorInCycle) =>
          (~OfflineAttempted /\ pubs[Len(pubs)].outcome = "raised")

C8_ErrorNeverEndsLoop ==
    /\ [](C8_Contained)
    /\ \A c \in 1..(MaxCycles - 1) : (cycle = c /\ ErrorInCycle) ~> (cycle = c + 1)

C8_Witness ==
    /\ pc = "handler_sleep"
    /\ rd_result.kind = "raise"
    /\ pubs[1].outcome = "raised"

(***************************************************************************)
(* C9: get_co2_level returns GREAT for 350..450, NORMAL for 451..1000,     *)
(* SLEEPY for 1001..2000, WARNING for 2001..5000, ALERT from 5001 up, and  *)
(* ALERT with ALERT's description for every value below 350.               *)
(***************************************************************************)
ReferenceLevel(ppm) ==
    CASE ppm < 350 -> "ALERT"
      [] ppm >= 350 /\ ppm <= 450 -> "GREAT"
      [] ppm >= 451 /\ ppm <= 1000 -> "NORMAL"
      [] ppm >= 1001 /\ ppm <= 2000 -> "SLEEPY"
      [] ppm >= 2001 /\ ppm <= 5000 -> "WARNING"
      [] ppm >= 5001 -> "ALERT"

ReferenceDescription ==
    [GREAT |-> "Same as outdoor level",
     NORMAL |-> "Normal indoor level",
     SLEEPY |-> "May cause drowsiness",
     WARNING |-> "Warning level - Poor air quality",
     ALERT |-> "ALERT - Dangerous level"]

C9_ClassifierTable ==
    pc = "fn_done" =>
        /\ fn_ret[1] = ReferenceLevel(fn_ppm)
        /\ fn_ret[2] = ReferenceDescription[ReferenceLevel(fn_ppm)]
        /\ fn_ppm = 450 => fn_ret[1] = "GREAT"
        /\ fn_ppm = 451 => fn_ret[1] = "NORMAL"
        /\ fn_ppm = 300 => fn_ret[1] = "ALERT"

C9_Witness ==
    /\ pc = "fn_done"
    /\ fn_ppm = 300
    /\ fn_ret = <<"ALERT", "ALERT - Dangerous level">>

(***************************************************************************)
(* C10: the payload published on /detected is "NORMAL" when the reading    *)
(* is at most 1000 and "ABNORMAL" when it is 1001 or more.                 *)
(***************************************************************************)
C10_DetectedThreshold ==
    \A i \in 1..Len(pubs) :
        pubs[i].topic = "sensors/co2/detected" =>
            /\ GotReading
            /\ rd_result.value <= 1000 => pubs[i].payload = "NORMAL"
            /\ rd_result.value >= 1001 => pubs[i].payload = "ABNORMAL"

C10_Witness ==
    /\ GotReading
    /\ rd_result.value = 1001
    /\ Len(pubs) >= 1
    /\ pubs[1].topic = "sensors/co2/detected"
    /\ pubs[1].payload = "ABNORMAL"

(***************************************************************************)
(* C11: a successful cycle classified WARNING or ALERT increments the      *)
(* alert counter of that severity by exactly 1 and no other counter; a     *)
(* cycle classified GREAT, NORMAL or SLEEPY changes no alert counter.      *)
(* Each severity's counter equals the number of successful cycles          *)
(* classified at that severity.                                            *)
(***************************************************************************)
\* the readings whose metrics update is complete
Counted == IF pc \in {"classify", "set_level"} THEN Len(readings) - 1 ELSE Len(readings)

CyclesAt(severity) ==
    Cardinality({i \in 1..Counted : ReferenceLevel(readings[i]) = severity})

C11_CountersMatch ==
    \A l \in {"GREAT", "NORMAL", "SLEEPY", "WARNING", "ALERT"} :
        co2_alerts[l] = IF l \in {"WARNING", "ALERT"} THEN CyclesAt(l) ELSE 0

C11_OneIncrement ==
    \/ co2_alerts' = co2_alerts
    \/ /\ pc = "set_level"
       /\ ReferenceLevel(rd_result.value) \in {"WARNING", "ALERT"}
       /\ co2_alerts' = [co2_alerts EXCEPT ![ReferenceLevel(rd_result.value)] = @ + 1]

C11_AlertCounters == [](C11_CountersMatch) /\ [][C11_OneIncrement]_vars

C11_Witness ==
    /\ readings = <<2001, 5001>>
    /\ pc = "pub_detected"
    /\ co2_alerts["WARNING"] = 1
    /\ co2_alerts["ALERT"] = 1

(***************************************************************************)
(* C12: after the metrics update of a successful cycle exactly one level   *)
(* indicator is 1, the one of the level of the cycle's reading, and the    *)
(* others are 0; two indicators are never 1 together.                      *)
(***************************************************************************)
OneHot(l) == [k \in {"GREAT", "NORMAL", "SLEEPY", "WARNING", "ALERT"} |-> IF k = l THEN 1 ELSE 0]

C12_SingleActiveLevel ==
    /\ \A l \in DOMAIN co2_level : co2_level[l] \in {0, 1}
    /\ Cardinality({l \in DOMAIN co2_level : co2_level[l] = 1}) <= 1
    /\ (GotReading /\ pc \notin {"rd_finally", "classify", "set_level"})
          => co2_level = OneHot(ReferenceLevel(rd_result.value))

C12_Witness ==
    /\ readings = <<400, 2001>>
    /\ pc = "pub_detected"
    /\ co2_level["WARNING"] = 1
    /\ co2_level["GREAT"] = 0

(***************************************************************************)
(* C13: the serial channel is closed on every exit path of read_co2        *)
(* (reading, failure, exception after the open): it is never open while    *)
(* the cycle updates metrics, publishes or sleeps, and no channel is       *)
(* opened while one is open.                                               *)
(***************************************************************************)
C13_OpenOnlyInRead == sensor_open => pc \in {"rd_xfer", "rd_finally"}

\* the step that leaves read_co2
C13_ClosedOnExit == (pc = "rd_finally" /\ pc' # "rd_finally") => ~sensor_open'

C13_ChannelReleased == [](C13_OpenOnlyInRead) /\ [][C13_ClosedOnExit]_vars

C13_Witness ==
    /\ pc = "pub_offline"
    /\ rd_result.resp_len = 5
    /\ ~sensor_open

(***************************************************************************)
(* C14: peak_ppm starts at 0 and never decreases, in successful and in     *)
(* failed cycles; the payloads published on /peak are strictly increasing. *)
(***************************************************************************)
DecimalValue ==
    ("300" :> 300) @@ ("390" :> 390) @@ ("400" :> 400) @@ ("500" :> 500) @@
    ("1000" :> 1000) @@ ("1001" :> 1001) @@ ("2001" :> 2001) @@ ("5001" :> 5001)

C14_PeakPayloadsIncrease ==
    /\ cycle = 0 => peak_ppm = 0
    /\ \A i, j \in 1..Len(peak_pubs) :
          i < j => DecimalValue[peak_pubs[i]] < DecimalValue[peak_pubs[j]]

C14_PeakMonotonic ==
    [](C14_PeakPayloadsIncrease) /\ [][peak_ppm' >= peak_ppm]_vars

C14_Witness ==
    /\ peak_pubs = <<"400", "500">>
    /\ peak_ppm = 500
    /\ CycleEnded

(***************************************************************************)
(* C15: the last-will (payload "0", retained, on /online) is registered    *)
(* on the client before the first connection attempt: every connect        *)
(* attempt is made with the last-will set.                                 *)
(***************************************************************************)
C15_WillBeforeConnect ==
    /\ Len(will_at_connect) = attempts
    /\ \A i \in 1..Len(will_at_connect) :
          /\ will_at_connect[i].topic = "sensors/co2/online"
          /\ will_at_connect[i].payload = "0"
          /\ will_at_connect[i].retain = TRUE

C15_Witness ==
    /\ attempts = 1
    /\ will_at_connect[1].topic = "sensors/co2/online"
    /\ will_at_connect[1].payload = "0"
    /\ will_at_connect[1].retain = TRUE

(***************************************************************************)
(* C16: the time from the start of one cycle to the start of the next.     *)
(* As stated: it is 10 seconds for every pair of consecutive cycles,       *)
(* whatever the first cycle took.  As amended: the loop sleeps 10 seconds  *)
(* after the work of a cycle, so the time between two starts is 10         *)
(* seconds plus the duration of the first cycle's acquisition and          *)
(* publishes: never less than 10 seconds, at least 10.2 seconds when the   *)
(* port was read and at least 10.7 seconds when the read timed out.        *)
(* Times are in tenths of a second.                                        *)
(***************************************************************************)
NextCycleStarts == cycle' = cycle + 1 /\ cycle >= 1

C16_FixedPeriod == [][NextCycleStarts => elapsed = 100]_vars

C16_SleepAfterWork ==
    /\ (pc \in {"sleep", "handler_sleep"} /\ pc' = "loop") => elapsed' = elapsed + 100
    /\ NextCycleStarts =>
          /\ elapsed >= 100
          /\ rd_result.resp_len = 7 => elapsed >= 102
          /\ rd_result.resp_len \in {0, 5} => elapsed >= 107

C16_PeriodIsWorkPlusSleep == [][C16_SleepAfterWork]_vars

C16_Witness ==
    /\ pc = "loop"
    /\ cycle = 1
    /\ GotReading
    /\ elapsed = 102

(***************************************************************************)
(* C17: every publish is followed by a wait for its acknowledgement        *)
(* before the next publish is issued: no publish is issued while an        *)
(* earlier one, of the same or of a previous cycle, the offline publish    *)
(* after a cycle error included, is unacknowledged.                        *)
(***************************************************************************)
PublishIssued == Len(pubs') = Len(pubs) + 1

C17_NoPublishWhileUnacked == [][PublishIssued => inflight = {}]_vars

(***************************************************************************)
(* C18: after every completed cycle peak_ppm is the maximum of 0 and all   *)
(* readings produced so far, also when a publish of the cycle returned an  *)
(* error or raised.                                                        *)
(***************************************************************************)
MaxReading ==
    CHOOSE m \in {0} \cup {readings[i] : i \in 1..Len(readings)} :
        \A i \in 1..Len(readings) : readings[i] <= m

C18_PeakIsMaximum == CycleEnded => peak_ppm = MaxReading

(***************************************************************************)
(* C19: a cycle whose acquisition failed leaves the ppm gauge, the level   *)
(* indicators, the alert counters and peak_ppm as they were; the metrics   *)
(* keep showing the last successful reading.                               *)
(***************************************************************************)
InFailedCycle(kind) == kind \in {"failure", "raise"}

C19_FailureStep ==
    (\/ pc \in {"loop", "rd_xfer", "rd_finally"}
     \/ InFailedCycle(rd_result.kind)
     \/ InFailedCycle(rd_result'.kind))
        => UNCHANGED <<co2_gauge, co2_level, co2_alerts, peak_ppm>>

C19_LastReadingShown ==
    (Counted >= 1 /\ pc # "set_level") =>
        /\ co2_gauge = readings[Counted]
        /\ co2_level = OneHot(ReferenceLevel(readings[Counted]))

C19_FailureKeepsMetrics == [](C19_LastReadingShown) /\ [][C19_FailureStep]_vars

C19_Witness ==
    /\ cycle = 2
    /\ readings = <<2001>>
    /\ AcquisitionFailed
    /\ pc = "sleep"
    /\ pubs[1].payload = "0"
    /\ co2_gauge = 2001
    /\ co2_level["WARNING"] = 1
    /\ co2_alerts["WARNING"] = 1
    /\ peak_ppm = 2001

(***************************************************************************)
(* C20: the two severity reports of a successful cycle.  As stated: the    *)
(* /detected payload is "ABNORMAL" exactly when the level is SLEEPY,       *)
(* WARNING or ALERT, so no cycle that increments an alert counter          *)
(* publishes "NORMAL".  As amended: this holds for readings of 350 and     *)
(* more; a reading below 350 is classified ALERT (the fall-back of         *)
(* get_co2_level) and increments the ALERT counter while /detected         *)
(* carries "NORMAL".                                                       *)
(***************************************************************************)
DetectedPayloads ==
    {pubs[i].payload : i \in {k \in 1..Len(pubs) : pubs[k].topic = "sensors/co2/detected"}}

C20_ReportsAgree ==
    \A p \in DetectedPayloads :
        /\ p = "ABNORMAL" <=> level \in {"SLEEPY", "WARNING", "ALERT"}
        /\ level \in {"WARNING", "ALERT"} => p # "NORMAL"

C20_ReportsAgreeFrom350 ==
    \A p \in DetectedPayloads :
        /\ p \in {"NORMAL", "ABNORMAL"}
        /\ rd_result.value >= 350 =>
              (p = "ABNORMAL" <=> level \in {"SLEEPY", "WARNING", "ALERT"})
        /\ rd_result.value < 350 =>
              (p = "NORMAL" /\ level = "ALERT" /\ co2_alerts["ALERT"] >= 1)

C20_Witness ==
    /\ rd_result.value = 300
    /\ level = "ALERT"
    /\ co2_alerts["ALERT"] = 1
    /\ DetectedPayloads = {"NORMAL"}

====
